---- MODULE Spec2Model ----
(***************************************************************************)
(* The conversation flow controller of the chat side panel (the App       *)
(* component), in its two variants:                                        *)
(*   part_000: identity turn at messages.length == 2, questionCount < 5    *)
(*   part_001: identity turn at messages.length == 0, questionCount < 2    *)
(*                                                                         *)
(* React state (messages, input, questionCount, pageInfo) is the state of  *)
(* the model.  Every handler is a closure over the state of the render in  *)
(* which it was created: handleSend reads messages.length and              *)
(* questionCount of the current render, and the async functions it starts  *)
(* (composioSignIn, generateQuestion, generateInsights) keep reading the   *)
(* SAME render's messages, pageInfo and questionCount after their await.   *)
(* Only the functional updates setMessages(prev => ...) see the state as   *)
(* it is when they run.  Texts are sequences of one-character strings.     *)
(*                                                                         *)
(* The actions are translated from part_000, with the two literals read    *)
(* from `variant`.  The variable twin holds the React state of part_001,   *)
(* translated on its own (the Twin operators) and driven by the same       *)
(* submits and outcomes with the same two literals.                        *)
(***************************************************************************)
EXTENDS Integers, Sequences, FiniteSets, TLC

\* Bounds of the model
MaxSubmits == 4
MaxPending == 2

VARIABLES
    variant,        \* which App file is running
    messages,       \* useState: the transcript
    input,          \* useState: the text field
    questionCount,  \* useState
    pageInfo,       \* useState: NoPageInfo is null
    pageReq,        \* the chrome.runtime.sendMessage request: none / sent / done
    pending,        \* async calls awaiting their collaborator, with what they captured
    calls,          \* log: every collaborator invocation, in order
    origin,         \* log: per transcript position, the submit and path that appended it
    resolved,       \* log: every collaborator call that has settled
    submits,        \* number of non-empty submits so far
    twin            \* the React state of part_001 run side by side

vars == <<variant, messages, input, questionCount, pageInfo, pageReq,
          pending, calls, origin, resolved, submits, twin>>

----------------------------------------------------------------------------
\* The two variants and their constants

Variants == {"part_000", "part_001"}

\* handleSend: if (messages.length == 2) / if (messages.length == 0)
IdentityLength(v) == IF v = "part_000" THEN 2 ELSE 0

\* handleSend: if (questionCount < 5) / if (questionCount < 2)
QuestionLimit(v) == IF v = "part_000" THEN 5 ELSE 2

----------------------------------------------------------------------------
\* Texts

\* String.prototype.trim: strip the leading and the trailing white space
RECURSIVE TrimStart(_)
TrimStart(s) ==
    IF s = <<>> THEN <<>>
    ELSE IF Head(s) = " " THEN TrimStart(Tail(s))
    ELSE s

RECURSIVE TrimEnd(_)
TrimEnd(s) ==
    IF s = <<>> THEN <<>>
    ELSE IF s[Len(s)] = " " THEN TrimEnd(SubSeq(s, 1, Len(s) - 1))
    ELSE s

Trim(s) == TrimEnd(TrimStart(s))

\* what the user may type into the text field
InputTexts == { <<>>, <<" ">>, <<" ", "a">> }

\* `!input` in place of `!input.trim()`
IsEmptyInputNoTrim(s) == s = <<>>

\* `!input.trim()`: the empty string is the only falsy string
IsEmptyInput(s) == Trim(s) = <<>>

\* useState<...|null>(null)
NoPageInfo == [title |-> <<>>, url |-> <<>>]

\* what the background script may answer: nothing usable (no active tab, or
\* a tab without title or url), or title and url of the active tab
PageResponses ==
    { NoPageInfo,
      [title |-> <<"T">>, url |-> <<>>],
      [title |-> <<>>, url |-> <<"U">>],
      [title |-> <<"T">>, url |-> <<"U">>] }

\* `response && response.title && response.url`
PageResponseUsable(r) == r.title # <<>> /\ r.url # <<>>

\* what anthropic.messages.create may resolve to: content[0]
CompletionResponses ==
    { [type |-> "text", text |-> <<"R">>] }

\* response.content[0].type === 'text' ? response.content[0].text : 'Response received'
ResponseText(r) == IF r.type = "text" THEN r.text ELSE <<"Response received">>

\* connection.redirectUrl
RedirectUrls == { <<"L">> }

ErrorText == <<"Sorry, there was an error generating a response.">>
RedirectText(url) == <<"Visit the URL to authorize: ">> \o url
PageText(title) == <<"Current page: ">> \o title

UserTurn(text) == [role |-> "user", content |-> text]
AssistantTurn(text) == [role |-> "assistant", content |-> text]

\* setMessages(prev => [turn, ...prev])
AppendTurnFirst(prev, turn) == <<turn>> \o prev

\* setMessages(prev => [...prev, turn])
AppendTurn(prev, turn) == Append(prev, turn)

\* the prompt built from the pageInfo of the mount render, which is null
PromptUrlMount(p) == <<"undefined">>

\* `${pageInfo?.url}` and `${pageInfo?.title}` in the question prompt
PromptUrl(p) == IF p = NoPageInfo THEN <<"undefined">> ELSE p.url
PromptTitle(p) == IF p = NoPageInfo THEN <<"undefined">> ELSE p.title

----------------------------------------------------------------------------
\* handleSend's branch: which async function the submit starts

\* the questionCount test placed before the identity test
DispatchCountFirst(v, len, count) ==
    IF count < QuestionLimit(v) THEN "generateQuestion"
    ELSE IF len = IdentityLength(v) THEN "composioSignIn"
    ELSE "generateInsights"

\* `questionCount <= limit` in place of `questionCount < limit`
DispatchInclusive(v, len, count) ==
    IF len = IdentityLength(v) THEN "composioSignIn"
    ELSE IF count <= QuestionLimit(v) THEN "generateQuestion"
    ELSE "generateInsights"

\* `messages.length <= n` in place of `messages.length == n`
DispatchUpTo(v, len, count) ==
    IF len <= IdentityLength(v) THEN "composioSignIn"
    ELSE IF count < QuestionLimit(v) THEN "generateQuestion"
    ELSE "generateInsights"

Dispatch(v, len, count) ==
    IF len = IdentityLength(v) THEN "composioSignIn"
    ELSE IF count < QuestionLimit(v) THEN "generateQuestion"
    ELSE "generateInsights"

\* the collaborator call each async function makes first
CallOf(fn) ==
    CASE fn = "composioSignIn" -> "authorize"
      [] fn = "generateQuestion" -> "question"
      [] fn = "generateInsights" -> "summary"

\* setQuestionCount(questionCount + 2)
NextQuestionCountTwo(captured) == captured + 2

\* the setQuestionCount argument of generateQuestion: the count of the
\* render that started it, plus one
NextQuestionCount(captured) == captured + 1

----------------------------------------------------------------------------
\* part_001 side by side: the controller of src/unnamed/part_001, with its
\* two literals (messages.length == 0, questionCount < 2) as parameters, as
\* functions of its own React state tw = [messages, questionCount, pageInfo,
\* pending].  It is driven with the submits and the collaborator outcomes
\* of the controller above.

\* the useState initial values
TwinInit ==
    [messages |-> <<>>, questionCount |-> 0,
     pageInfo |-> [title |-> <<>>, url |-> <<>>], pending |-> {}]

\* handleSend's branch
TwinDispatch(identityLength, questionLimit, len, count) ==
    IF len = identityLength THEN "authorize"
    ELSE IF count < questionLimit THEN "question"
    ELSE "summary"

\* handleSend
TwinHandleSend(tw, identityLength, questionLimit, text, id) ==
    IF Trim(text) = <<>> THEN tw
    ELSE [tw EXCEPT
            !.messages = Append(@, [role |-> "user", content |-> text]),
            !.pending = @ \cup
                {[id |-> id,
                  call |-> TwinDispatch(identityLength, questionLimit,
                                        Len(tw.messages), tw.questionCount),
                  questionCount |-> tw.questionCount]}]

\* the async function submit id started
TwinPending(tw, id) == CHOOSE p \in tw.pending : p.id = id

\* composioSignIn, authorize resolves
TwinAuthorizeResolved(tw, id, url) ==
    [tw EXCEPT
        !.messages = Append(@, [role |-> "assistant",
                                content |-> <<"Visit the URL to authorize: ">> \o url]),
        !.pending = (@ \ {TwinPending(tw, id)})
                      \cup {[TwinPending(tw, id) EXCEPT !.call = "waitForConnection"]}]

\* composioSignIn, authorize rejects
TwinAuthorizeRejected(tw, id) ==
    [tw EXCEPT !.pending = @ \ {TwinPending(tw, id)}]

\* composioSignIn, waitForConnection settles
TwinWaitForConnectionSettled(tw, id) ==
    [tw EXCEPT !.pending = @ \ {TwinPending(tw, id)}]

\* setQuestionCount(c => c + 1)
TwinNextQuestionCountFunctional(tw, captured) == tw.questionCount + 1

\* setQuestionCount(questionCount + 1)
TwinNextQuestionCount(tw, captured) == captured + 1

\* generateQuestion, the try block after the await
TwinQuestionResolved(tw, id, r) ==
    [tw EXCEPT
        !.messages = Append(@, [role |-> "assistant",
                                content |-> IF r.type = "text" THEN r.text
                                            ELSE <<"Response received">>]),
        !.questionCount = TwinNextQuestionCount(tw, TwinPending(tw, id).questionCount),
        !.pending = @ \ {TwinPending(tw, id)}]

\* generateQuestion, the catch block
TwinQuestionRejected(tw, id) ==
    [tw EXCEPT
        !.messages = Append(@, [role |-> "assistant",
                                content |-> <<"Sorry, there was an error generating a response.">>]),
        !.pending = @ \ {TwinPending(tw, id)}]

\* generateInsights after the await
TwinInsightsResolved(tw, id, r) ==
    [tw EXCEPT
        !.messages = Append(@, [role |-> "assistant",
                                content |-> IF r.type = "text" THEN r.text
                                            ELSE <<"Response received">>]),
        !.pending = @ \ {TwinPending(tw, id)}]

\* generateInsights, the await rejects
TwinInsightsRejected(tw, id) ==
    [tw EXCEPT !.pending = @ \ {TwinPending(tw, id)}]

\* the sendMessage callback of the mount effect
TwinPageInfoResponse(tw, r) ==
    IF r.title # <<>> /\ r.url # <<>>
    THEN [tw EXCEPT
            !.pageInfo = r,
            !.messages = Append(@, [role |-> "assistant",
                                    content |-> <<"Current page: ">> \o r.title])]
    ELSE tw

----------------------------------------------------------------------------
Init ==
    /\ variant \in Variants
    /\ messages = <<>>
    /\ input = <<>>
    /\ questionCount = 0
    /\ pageInfo = NoPageInfo
    /\ pageReq \in {"none", "sent"}
    /\ pending = {}
    /\ calls = <<>>
    /\ origin = <<>>
    /\ resolved = {}
    /\ submits = 0
    /\ twin = TwinInit

\* The user leaves `text` in the field (handleInputChange: setInput) and
\* submits the form; handleSend returns at `if (!input.trim()) return`,
\* the field keeps the text
HandleSendEmpty(text) ==
    /\ IsEmptyInput(text)
    /\ input' = text
    /\ UNCHANGED <<variant, messages, questionCount, pageInfo, pageReq,
                   pending, calls, origin, resolved, submits>>
    /\ twin' = TwinHandleSend(twin, IdentityLength(variant), QuestionLimit(variant),
                              text, submits + 1)

\* handleSend returning early once a collaborator call has failed
HandleSendUnlessFailed(text) ==
    /\ ~IsEmptyInput(text)
    /\ \A r \in resolved : r.ok
    /\ submits < MaxSubmits
    /\ Cardinality(pending) < MaxPending
    /\ LET id == submits + 1
           fn == Dispatch(variant, Len(messages), questionCount)
       IN  /\ messages' = AppendTurn(messages, UserTurn(text))
           /\ origin' = Append(origin, [id |-> id, path |-> "user"])
           /\ calls' = Append(calls,
                  [id |-> id, call |-> CallOf(fn),
                   email |-> IF fn = "composioSignIn" THEN Trim(text) ELSE <<>>,
                   messages |-> IF fn = "composioSignIn" THEN <<>> ELSE messages,
                   url |-> IF fn = "generateQuestion" THEN PromptUrl(pageInfo) ELSE <<>>,
                   title |-> IF fn = "generateQuestion" THEN PromptTitle(pageInfo) ELSE <<>>,
                   length |-> Len(messages),
                   questionCount |-> questionCount])
           /\ pending' = pending \cup
                  {[id |-> id, call |-> CallOf(fn), questionCount |-> questionCount]}
           /\ submits' = id
    /\ input' = <<>>
    /\ UNCHANGED <<variant, questionCount, pageInfo, pageReq, resolved>>
    /\ twin' = TwinHandleSend(twin, IdentityLength(variant), QuestionLimit(variant),
                              text, submits + 1)

\* The user leaves `text` in the field (handleInputChange: setInput) and
\* submits the form; handleSend passes the guard: it appends the User turn,
\* starts one async function (whose collaborator call is made synchronously,
\* with the messages and the pageInfo of this render) and clears the field
HandleSend(text) ==
    /\ ~IsEmptyInput(text)
    /\ submits < MaxSubmits
    /\ Cardinality(pending) < MaxPending
    /\ LET id == submits + 1
           fn == Dispatch(variant, Len(messages), questionCount)
       IN  /\ messages' = AppendTurn(messages, UserTurn(text))
           /\ origin' = Append(origin, [id |-> id, path |-> "user"])
           /\ calls' = Append(calls,
                  [id |-> id, call |-> CallOf(fn),
                   email |-> IF fn = "composioSignIn" THEN Trim(text) ELSE <<>>,
                   messages |-> IF fn = "composioSignIn" THEN <<>> ELSE messages,
                   url |-> IF fn = "generateQuestion" THEN PromptUrl(pageInfo) ELSE <<>>,
                   title |-> IF fn = "generateQuestion" THEN PromptTitle(pageInfo) ELSE <<>>,
                   length |-> Len(messages),
                   questionCount |-> questionCount])
           /\ pending' = pending \cup
                  {[id |-> id, call |-> CallOf(fn), questionCount |-> questionCount]}
           /\ submits' = id
    /\ input' = <<>>
    /\ UNCHANGED <<variant, questionCount, pageInfo, pageReq, resolved>>
    /\ twin' = TwinHandleSend(twin, IdentityLength(variant), QuestionLimit(variant),
                              text, submits + 1)

\* bookkeeping shared by the callbacks: the collaborator call of p (authorize
\* or messages.create) has settled, after `submits` submits
Settle(p, ok) ==
    resolved' = resolved \cup {[id |-> p.id, call |-> p.call, ok |-> ok, at |-> submits]}

\* composioSignIn, `await composio.toolkits.authorize(...)` resolves: append
\* the redirect turn, then `await connection.waitForConnection()`
AuthorizeResolved(p, url) ==
    /\ p \in pending /\ p.call = "authorize"
    /\ messages' = AppendTurn(messages, AssistantTurn(RedirectText(url)))
    /\ origin' = Append(origin, [id |-> p.id, path |-> "redirect"])
    /\ pending' = (pending \ {p}) \cup {[p EXCEPT !.call = "waitForConnection"]}
    /\ Settle(p, TRUE)
    /\ UNCHANGED <<variant, input, questionCount, pageInfo, pageReq, calls, submits>>
    /\ twin' = TwinAuthorizeResolved(twin, p.id, url)

\* composioSignIn, authorize rejects: there is no try/catch, the promise
\* composioSignIn returned is rejected and nobody handles it
AuthorizeRejected(p) ==
    /\ p \in pending /\ p.call = "authorize"
    /\ pending' = pending \ {p}
    /\ Settle(p, FALSE)
    /\ UNCHANGED <<variant, messages, input, questionCount, pageInfo, pageReq,
                   calls, origin, submits>>
    /\ twin' = TwinAuthorizeRejected(twin, p.id)

\* composioSignIn reporting the outcome of waitForConnection in a turn
WaitForConnectionSettledAnnounced(p, ok) ==
    /\ p \in pending /\ p.call = "waitForConnection"
    /\ pending' = pending \ {p}
    /\ messages' = AppendTurn(messages,
           AssistantTurn(IF ok THEN <<"Connected">> ELSE ErrorText))
    /\ origin' = Append(origin, [id |-> p.id, path |-> IF ok THEN "connected" ELSE "error"])
    /\ UNCHANGED <<variant, input, questionCount, pageInfo, pageReq,
                   calls, resolved, submits>>
    /\ twin' = TwinWaitForConnectionSettled(twin, p.id)

\* composioSignIn, waitForConnection settles either way: nothing follows it
WaitForConnectionSettled(p, ok) ==
    /\ p \in pending /\ p.call = "waitForConnection"
    /\ pending' = pending \ {p}
    /\ UNCHANGED <<variant, messages, input, questionCount, pageInfo, pageReq,
                   calls, origin, resolved, submits>>
    /\ twin' = TwinWaitForConnectionSettled(twin, p.id)

\* generateQuestion, the try block after the await
QuestionResolved(p, r) ==
    /\ p \in pending /\ p.call = "question"
    /\ messages' = AppendTurn(messages, AssistantTurn(ResponseText(r)))
    /\ origin' = Append(origin, [id |-> p.id, path |-> "question"])
    /\ questionCount' = NextQuestionCount(p.questionCount)
    /\ pending' = pending \ {p}
    /\ Settle(p, TRUE)
    /\ UNCHANGED <<variant, input, pageInfo, pageReq, calls, submits>>
    /\ twin' = TwinQuestionResolved(twin, p.id, r)

\* generateQuestion with setQuestionCount moved after the try/catch
QuestionRejectedCounting(p) ==
    /\ p \in pending /\ p.call = "question"
    /\ messages' = AppendTurn(messages, AssistantTurn(ErrorText))
    /\ origin' = Append(origin, [id |-> p.id, path |-> "error"])
    /\ questionCount' = p.questionCount + 1
    /\ pending' = pending \ {p}
    /\ Settle(p, FALSE)
    /\ UNCHANGED <<variant, input, pageInfo, pageReq, calls, submits>>
    /\ twin' = TwinQuestionRejected(twin, p.id)

\* generateQuestion, the catch block
QuestionRejected(p) ==
    /\ p \in pending /\ p.call = "question"
    /\ messages' = AppendTurn(messages, AssistantTurn(ErrorText))
    /\ origin' = Append(origin, [id |-> p.id, path |-> "error"])
    /\ pending' = pending \ {p}
    /\ Settle(p, FALSE)
    /\ UNCHANGED <<variant, input, questionCount, pageInfo, pageReq, calls, submits>>
    /\ twin' = TwinQuestionRejected(twin, p.id)

\* generateInsights after the await
InsightsResolved(p, r) ==
    /\ p \in pending /\ p.call = "summary"
    /\ messages' = AppendTurn(messages, AssistantTurn(ResponseText(r)))
    /\ origin' = Append(origin, [id |-> p.id, path |-> "summary"])
    /\ pending' = pending \ {p}
    /\ Settle(p, TRUE)
    /\ UNCHANGED <<variant, input, questionCount, pageInfo, pageReq, calls, submits>>
    /\ twin' = TwinInsightsResolved(twin, p.id, r)

\* generateInsights, the await rejects: there is no try/catch
InsightsRejected(p) ==
    /\ p \in pending /\ p.call = "summary"
    /\ pending' = pending \ {p}
    /\ Settle(p, FALSE)
    /\ UNCHANGED <<variant, messages, input, questionCount, pageInfo, pageReq,
                   calls, origin, submits>>
    /\ twin' = TwinInsightsRejected(twin, p.id)

\* the callback with setMessages([...messages, turn]): the messages of the
\* mount render, which are empty
PageInfoResponseStale(r) ==
    /\ pageReq = "sent"
    /\ pageReq' = "done"
    /\ IF PageResponseUsable(r)
       THEN /\ pageInfo' = r
            /\ messages' = <<AssistantTurn(PageText(r.title))>>
            /\ origin' = <<[id |-> 0, path |-> "page"]>>
       ELSE UNCHANGED <<pageInfo, messages, origin>>
    /\ UNCHANGED <<variant, input, questionCount, pending, calls, resolved, submits>>
    /\ twin' = TwinPageInfoResponse(twin, r)

\* the effect without its [] dependency list: the request is sent again
\* after every render
PageInfoResponseRearmed(r) ==
    /\ pageReq = "sent"
    /\ pageReq' = "sent"
    /\ IF PageResponseUsable(r)
       THEN /\ pageInfo' = r
            /\ messages' = AppendTurn(messages, AssistantTurn(PageText(r.title)))
            /\ origin' = Append(origin, [id |-> 0, path |-> "page"])
       ELSE UNCHANGED <<pageInfo, messages, origin>>
    /\ UNCHANGED <<variant, input, questionCount, pending, calls, resolved, submits>>
    /\ twin' = TwinPageInfoResponse(twin, r)

\* the sendMessage callback of the mount effect
PageInfoResponse(r) ==
    /\ pageReq = "sent"
    /\ pageReq' = "done"
    /\ IF PageResponseUsable(r)
       THEN /\ pageInfo' = r
            /\ messages' = AppendTurn(messages, AssistantTurn(PageText(r.title)))
            /\ origin' = Append(origin, [id |-> 0, path |-> "page"])
       ELSE UNCHANGED <<pageInfo, messages, origin>>
    /\ UNCHANGED <<variant, input, questionCount, pending, calls, resolved, submits>>
    /\ twin' = TwinPageInfoResponse(twin, r)

Next ==
    \/ \E text \in InputTexts : HandleSendEmpty(text)
    \/ \E text \in InputTexts : HandleSend(text)
    \/ \E p \in pending, url \in RedirectUrls : AuthorizeResolved(p, url)
    \/ \E p \in pending : AuthorizeRejected(p)
    \/ \E p \in pending, ok \in BOOLEAN : WaitForConnectionSettled(p, ok)
    \/ \E p \in pending, r \in CompletionResponses : QuestionResolved(p, r)
    \/ \E p \in pending : QuestionRejected(p)
    \/ \E p \in pending, r \in CompletionResponses : InsightsResolved(p, r)
    \/ \E p \in pending : InsightsRejected(p)
    \/ \E r \in PageResponses : PageInfoResponse(r)

Spec == Init /\ [][Next]_vars

----------------------------------------------------------------------------
\* Reading the logs

IsPrefix(s, t) == Len(s) <= Len(t) /\ SubSeq(t, 1, Len(s)) = s

\* the collaborator invocations made by submit number id
CallsOf(id) == { i \in 1..Len(calls) : calls[i].id = id }

\* the invocation made by submit number id
CallById(id) == calls[CHOOSE i \in 1..Len(calls) : calls[i].id = id]

\* the transcript positions of the Agent turns appended because of submit id
AgentTurnsOf(id) ==
    { i \in 1..Len(origin) : origin[i].id = id /\ origin[i].path # "user" }

\* the collaborator call of submit id has settled
Settled(id) == \E r \in resolved : r.id = id

\* the page-context turn is in the transcript
PageTurnAppended == \E i \in 1..Len(origin) : origin[i].path = "page"

\* a settlement record of a failed question-generation call
QuestionFailure(r) == r.call = "question" /\ ~r.ok

\* the user turn at which the identity dispatch is configured: the first
\* submit in part_001 (messages.length == 0), the second in part_000
\* (messages.length == 2: one User turn and its Agent turn)
IdentitySubmit(v) == IF v = "part_000" THEN 2 ELSE 1

----------------------------------------------------------------------------
\* C1: every non-empty submit makes exactly one collaborator call, and once
\* that call has settled, successfully or not, exactly one Agent turn has
\* been appended because of that submit.
C1_OneCallOneAgentTurn ==
    \A id \in 1..submits :
        /\ Cardinality(CallsOf(id)) = 1
        /\ Settled(id) => Cardinality(AgentTurnsOf(id)) = 1

\* C2: every collaborator failure (authorize, question, summary) has been
\* turned into an error Agent turn of the submit that made the call.
C2_FailureBecomesErrorTurn ==
    \A r \in resolved :
        ~r.ok => \E i \in 1..Len(origin) : origin[i] = [id |-> r.id, path |-> "error"]

\* C3: in a session with enough non-empty submits the Authorization call is
\* made exactly once, by the submit at the configured user-turn position,
\* whenever or whether the page-context turn is appended.
C3_IdentityDispatchAtConfiguredTurn ==
    submits >= IdentitySubmit(variant) =>
        { i \in 1..Len(calls) : calls[i].call = "authorize" }
            = { IdentitySubmit(variant) }

\* questionCount has been set to QuestionLimit or more at some point
ReachedLimit ==
    \E r \in resolved :
        /\ r.call = "question" /\ r.ok
        /\ CallById(r.id).questionCount + 1 >= QuestionLimit(variant)

\* C4: once questionCount has reached QuestionLimit, no later non-empty
\* submit dispatches question generation.
C4_NoQuestionAfterLimit ==
    [][(ReachedLimit /\ submits' = submits + 1)
          => calls'[Len(calls')].call # "question"]_vars

\* C5: questionCount never decreases from one state to the next.
C5_QuestionCountNeverDecreases ==
    [][questionCount' >= questionCount]_vars

\* C6: the settlement of a question-generation call raises questionCount by
\* exactly 1 when the call succeeded and by 0 when it failed.
C6_CountStepPerQuestion ==
    [][\A r \in resolved' \ resolved :
          r.call = "question" =>
              questionCount' = questionCount + (IF r.ok THEN 1 ELSE 0)]_vars

\* C7: when every dispatched call has settled, the transcript holds two
\* turns per non-empty submit, plus the page-context turn if it was appended.
C7_TranscriptLength ==
    pending = {} =>
        Len(messages) = 2 * submits + (IF PageTurnAppended THEN 1 ELSE 0)

\* C8: the transcript is append-only: in every step the transcript before
\* the step is a prefix of the transcript after it.
C8_TranscriptAppendOnly ==
    [][IsPrefix(messages, messages')]_vars

\* C8 witness: the page-context turn arrived between turns of submits, and
\* Agent turns of two submits followed it.
C8_Witness ==
    /\ Len(messages) >= 5
    /\ \E i \in 2..Len(origin) : origin[i].path = "page"
    /\ origin[Len(origin)].path # "user"

\* C9: a submit of empty or whitespace-only text changes nothing but the
\* text field: transcript, questionCount and pageInfo stay, no call is made.
C9_EmptySubmitIsNoOp ==
    [][\A text \in InputTexts :
          (Trim(text) = <<>> /\ (HandleSendEmpty(text) \/ HandleSend(text)))
              => UNCHANGED <<messages, questionCount, pageInfo, pending,
                             calls, origin, resolved, submits>>]_vars

\* C9 witness: a whitespace-only text was submitted in the middle of a
\* session (the field keeps a text only when handleSend returned at its
\* guard), with a call outstanding.
C9_Witness ==
    /\ input = <<" ">>
    /\ Len(messages) > 0
    /\ pending # {}

----------------------------------------------------------------------------
\* the text of the User turn appended by submit id
UserTextOf(id) ==
    messages[CHOOSE i \in 1..Len(origin) : origin[i] = [id |-> id, path |-> "user"]].content

\* every submit but the last was made after the call of the one before it
\* had settled successfully, and the last call has not failed
SequentialAllSuccessful ==
    /\ \A k \in 1..(submits - 1) :
          \E r \in resolved : r.id = k /\ r.at = k /\ r.ok
    /\ \A r \in resolved : r.ok

Min(a, b) == IF a < b THEN a ELSE b

\* C11: in part_001 (identity turn at the first user turn, QuestionLimit 2)
\* a sequential, all-successful session runs: submit 1 invokes Authorization
\* with the submitted text; submits 2..L+1 invoke question generation and
\* leave questionCount at 1..L; submit L+2 and later invoke summarization.
C11_SequentialScenario ==
    (variant = "part_001" /\ SequentialAllSuccessful) =>
        LET L == QuestionLimit(variant) IN
        /\ \A id \in 1..submits :
              LET c == CallById(id) IN
              /\ id = 1 => c.call = "authorize" /\ c.email = Trim(UserTextOf(id))
              /\ (2 <= id /\ id <= L + 1) => c.call = "question"
              /\ id >= L + 2 => c.call = "summary"
        /\ submits >= 1 =>
              questionCount =
                  Min(L, IF Settled(submits) THEN submits - 1
                         ELSE IF submits >= 2 THEN submits - 2 ELSE 0)

\* the Agent turns appended by successful question generation
QuestionTurns == { i \in 1..Len(origin) : origin[i].path = "question" }

\* C12: questionCount never exceeds the number of Agent turns appended by a
\* successful question-generation dispatch.
C12_CountAtMostQuestionTurns ==
    questionCount <= Cardinality(QuestionTurns)

\* C12 witness: overlapping question calls have resolved and the count is
\* positive and strictly below the number of question turns.
C12_Witness ==
    /\ questionCount >= 1
    /\ questionCount < Cardinality(QuestionTurns)
    /\ pending = {}

----------------------------------------------------------------------------
\* the positions of the page-context turn in the transcript
PageTurns == { i \in 1..Len(origin) : origin[i].path = "page" }

\* C13: the page-context fetch neither blocks a submit nor reorders the
\* transcript: while the response is outstanding a submit is accepted and
\* appends its User turn and dispatches its call, and a usable response
\* appends "Current page: <title>" after the turns already there.
C13_PageContextRace ==
    [][/\ (pageReq = "sent" /\ submits < MaxSubmits
              /\ Cardinality(pending) < MaxPending)
          => ENABLED HandleSend(<<" ", "a">>)
       /\ (pageReq = "sent" /\ submits' = submits + 1)
          => /\ pageReq' = "sent"
             /\ messages' = Append(messages, UserTurn(<<" ", "a">>))
             /\ Len(calls') = Len(calls) + 1
       /\ (pageReq = "sent" /\ pageReq' = "done" /\ pageInfo' # NoPageInfo)
          => messages' =
                 Append(messages,
                        AssistantTurn(<<"Current page: ">> \o pageInfo'.title))]_vars

\* C13 witness: the page-context turn was appended after the turns of a
\* submit made while the response was outstanding.
C13_Witness ==
    /\ \E i \in PageTurns : i >= 3
    /\ origin[1].path = "user"
    /\ origin[2].path # "page"

\* C14: pageInfo is set at most once and never changes afterwards; it is
\* only set by the one response to the request sent at mount, never by a
\* submit or a collaborator settlement, and at most one page-context turn
\* is appended.
C14_PageInfoSetOnce ==
    [][/\ pageInfo # NoPageInfo => pageInfo' = pageInfo
       /\ pageInfo' # pageInfo
          => /\ pageReq = "sent" /\ pageReq' = "done"
             /\ submits' = submits /\ resolved' = resolved /\ pending' = pending
       /\ pageReq = "done" => pageReq' = "done"
       /\ pageReq = "none" => pageReq' = "none" /\ pageInfo' = NoPageInfo
       /\ Cardinality(PageTurns') <= 1
       /\ Cardinality(PageTurns') = (IF pageInfo' = NoPageInfo THEN 0 ELSE 1)]_vars

\* C14 witness: pageInfo was set first, and submits and settlements of
\* collaborator calls followed.
C14_Witness ==
    /\ pageInfo # NoPageInfo
    /\ origin[1].path = "page"
    /\ submits >= 2
    /\ \E r \in resolved : r.ok
    /\ \E r \in resolved : ~r.ok

----------------------------------------------------------------------------
\* C15: the number of clarifying questions asked in a session (question
\* Agent turns, each from one question-generation dispatch) never exceeds
\* QuestionLimit, also when submits overlap unresolved calls.
C15_AtMostLimitQuestions ==
    Cardinality(QuestionTurns) <= QuestionLimit(variant)

\* C16: every Completion call (question or summary) is given the transcript
\* as it stands at the call, the User turn of its own submit included.
C16_CallSeesOwnUserTurn ==
    \A i \in 1..Len(calls) :
        calls[i].call \in {"question", "summary"} =>
            \E n \in 1..Len(messages) :
                /\ origin[n] = [id |-> calls[i].id, path |-> "user"]
                /\ calls[i].messages = SubSeq(messages, 1, n)

\* the calls dispatched by a submit that have not settled
Outstanding == { p \in pending : p.call # "waitForConnection" }

\* C17: submissions are serialized: at most one dispatched collaborator
\* call is outstanding in any reachable state.
C17_AtMostOneOutstanding ==
    Cardinality(Outstanding) <= 1

\* C18: the Authorization call is the first collaborator call of the
\* session: no Completion call is dispatched before it and no
\* Authorization call is dispatched after a Completion call.
C18_AuthorizationFirst ==
    \A i \in 1..Len(calls) :
        /\ i = 1 => calls[i].call = "authorize"
        /\ calls[i].call = "authorize" => i = 1

\* C19: exactly one branch is taken per submit, first match wins: at the
\* identity position Authorization, whatever questionCount is; otherwise
\* question generation iff questionCount < QuestionLimit; otherwise
\* summarization.
C19_DispatchPolicy ==
    /\ Len(calls) = submits
    /\ \A i \in 1..Len(calls) :
          /\ Cardinality(CallsOf(calls[i].id)) = 1
          /\ calls[i].call =
                (IF calls[i].length = IdentityLength(variant) THEN "authorize"
                 ELSE IF calls[i].questionCount < QuestionLimit(variant) THEN "question"
                 ELSE "summary")

\* C19 witness: all three branches were taken, Authorization with
\* questionCount below the limit.
C19_Witness ==
    /\ \E i \in 1..Len(calls) :
          /\ calls[i].call = "authorize"
          /\ calls[i].questionCount < QuestionLimit(variant)
    /\ \E i \in 1..Len(calls) : calls[i].call = "question"
    /\ \E i \in 1..Len(calls) : calls[i].call = "summary"

\* C20: a successful authorize call appends exactly one Agent turn holding
\* the redirect address and then waits for the connection; handleSend has
\* returned by then (the submit step leaves the call pending); when the wait
\* settles, either way, no turn is appended and questionCount and pageInfo
\* stay.
C20_AuthorizationSubFlow ==
    [][/\ \A r \in resolved' \ resolved :
              (r.call = "authorize" /\ r.ok) =>
                  /\ \E url \in RedirectUrls :
                        messages' = Append(messages,
                            AssistantTurn(<<"Visit the URL to authorize: ">> \o url))
                  /\ \E p \in pending' : p.id = r.id /\ p.call = "waitForConnection"
                  /\ questionCount' = questionCount /\ pageInfo' = pageInfo
       /\ (submits' = submits + 1 /\ calls'[Len(calls')].call = "authorize")
          => /\ \E p \in pending' : p.id = submits' /\ p.call = "authorize"
             /\ Len(messages') = Len(messages) + 1
             /\ input' = <<>>
       /\ (\E p \in pending : p.call = "waitForConnection" /\ p \notin pending')
          => UNCHANGED <<messages, questionCount, pageInfo>>]_vars

\* C20 witness: authorize succeeded, its redirect turn is in the transcript,
\* a later submit was made, and the wait has settled.
C20_Witness ==
    \E r \in resolved :
        /\ r.call = "authorize" /\ r.ok
        /\ Cardinality(AgentTurnsOf(r.id)) = 1
        /\ \A p \in pending : p.id # r.id
        /\ submits > r.id

----------------------------------------------------------------------------
\* a collaborator call (authorize, question or summary) has failed
SomeFailure == \E r \in resolved : ~r.ok

\* C21: the session stays usable after any collaborator failure: once an
\* Authorization, question or summary call has failed, a non-empty submit is
\* still accepted, and the submit that follows a failure has appended its
\* User turn and made exactly one collaborator call, the one the dispatch
\* policy gives for the transcript length and questionCount it saw.
C21_UsableAfterFailure ==
    /\ (SomeFailure /\ submits < MaxSubmits /\ Cardinality(pending) < MaxPending)
          => \A text \in InputTexts : ~IsEmptyInput(text) => ENABLED HandleSend(text)
    /\ \A r \in resolved :
          (~r.ok /\ r.at < submits) =>
              LET id == r.at + 1 IN
                  /\ \E i \in 1..Len(origin) :
                        /\ origin[i] = [id |-> id, path |-> "user"]
                        /\ messages[i].role = "user"
                  /\ Cardinality(CallsOf(id)) = 1
                  /\ CallById(id).call =
                        CallOf(Dispatch(variant, CallById(id).length,
                                        CallById(id).questionCount))

\* C21 witness: an Authorization or summary call has failed, a submit has
\* followed the failure and the call of that submit has settled.
C21_Witness ==
    \E r \in resolved :
        /\ ~r.ok /\ r.call \in {"authorize", "summary"} /\ r.at < submits
        /\ \E q \in resolved : q.id = r.at + 1

----------------------------------------------------------------------------
\* the transcript positions of the error turns
ErrorTurns == { i \in 1..Len(origin) : origin[i].path = "error" }

\* C22: absence of page context is a normal outcome: while there is no
\* bridge, no response, or only a response without title or url, pageInfo is
\* absent, the transcript has no page-context turn and no error turn but
\* those of failed question calls, and every submit has dispatched the call
\* it would have dispatched had the page-context turn been in the transcript
\* it saw.
C22_AbsentPageContextIsNormal ==
    pageInfo = NoPageInfo =>
        /\ PageTurns = {}
        /\ \A i \in ErrorTurns :
              \E r \in resolved : r.id = origin[i].id /\ QuestionFailure(r)
        /\ \A i \in 1..Len(calls) :
              calls[i].call =
                  CallOf(Dispatch(variant, calls[i].length + 1,
                                  calls[i].questionCount))

----------------------------------------------------------------------------
\* C23: part_000 and part_001 are the same controller up to their two
\* literals: run side by side with the same two constants, the same submits
\* and the same collaborator and page-context outcomes, they have the same
\* transcript, the same questionCount, the same pageInfo and the same calls
\* in flight after every step.
C23_VariantsEquivalent ==
    /\ twin.messages = messages
    /\ twin.questionCount = questionCount
    /\ twin.pageInfo = pageInfo
    /\ twin.pending = pending

\* C23 witness: both controllers have been through a page-context turn, an
\* identity turn, a counted question and a failed call, and agree.
C23_Witness ==
    /\ twin.messages = messages /\ twin.questionCount = questionCount
    /\ PageTurns # {}
    /\ questionCount >= 1
    /\ \E r \in resolved : r.call = "authorize" /\ r.ok
    /\ \E r \in resolved : ~r.ok

----------------------------------------------------------------------------
\* the page-context turn was in the transcript the submit of calls[i] saw
PageContextSetBefore(i) == \E j \in PageTurns : j <= calls[i].length

\* C24: a question-generation call dispatched after pageInfo was set carries
\* the url and the title of pageInfo in its instruction; the instruction of
\* a summary call carries neither.
C24_PromptCarriesPageContext ==
    \A i \in 1..Len(calls) :
        /\ (calls[i].call = "question" /\ PageContextSetBefore(i)) =>
              /\ pageInfo # NoPageInfo
              /\ calls[i].url = pageInfo.url
              /\ calls[i].title = pageInfo.title
        /\ calls[i].call = "summary" =>
              calls[i].url = <<>> /\ calls[i].title = <<>>

\* C24 witness: with pageInfo set, a question call and a summary call have
\* been dispatched after the page-context turn.
C24_Witness ==
    /\ pageInfo # NoPageInfo
    /\ \E i \in 1..Len(calls) :
          calls[i].call = "question" /\ PageContextSetBefore(i)
              /\ calls[i].url = <<"U">> /\ calls[i].title = <<"T">>
    /\ \E i \in 1..Len(calls) :
          calls[i].call = "summary" /\ PageContextSetBefore(i)

----------------------------------------------------------------------------
\* C25: in every reachable state, whatever the interleaving of submits and
\* resolutions, 0 <= questionCount <= QuestionLimit.
C25_CountWithinLimit ==
    0 <= questionCount /\ questionCount <= QuestionLimit(variant)

\* C25 witness: questionCount has reached QuestionLimit, and two question
\* calls that were in flight together have both resolved.
C25_Witness ==
    /\ questionCount = QuestionLimit(variant)
    /\ \E r, q \in resolved :
          /\ r.call = "question" /\ q.call = "question" /\ r.ok /\ q.ok
          /\ r.id < q.id /\ r.at >= q.id

----------------------------------------------------------------------------
\* the collaborator invocations that are Authorization calls
AuthorizeCalls == { i \in 1..Len(calls) : calls[i].call = "authorize" }

\* C26: at most one submit of a session invokes Authorization, whatever the
\* order in which submits, page context and collaborator callbacks arrive.
C26_AuthorizationAtMostOnce ==
    Cardinality(AuthorizeCalls) <= 1

\* C26 witness: Authorization has been invoked once, submits were made
\* before and after it, and the page-context turn and a collaborator
\* callback arrived in between.
C26_Witness ==
    /\ Cardinality(AuthorizeCalls) = 1
    /\ PageTurns # {}
    /\ \E i \in AuthorizeCalls :
          /\ 1 < i /\ i < Len(calls)
          /\ \E r \in resolved : r.id < calls[i].id

----------------------------------------------------------------------------
\* C27: the User turn of a non-empty submit stands in the transcript
\* strictly before the Agent turn (result, redirect or error) appended by
\* the collaborator call that submit dispatched, in every interleaving.
C27_UserTurnBeforeAgentTurn ==
    \A i, j \in 1..Len(origin) :
        (origin[i].id = origin[j].id /\ origin[i].path = "user"
            /\ origin[j].path \notin {"user", "page"}) =>
                /\ messages[i] = UserTurn(messages[i].content)
                /\ messages[j].role = "assistant"
                /\ i < j

\* C27 witness: a call resolved after another turn (the page-context turn or
\* a later submit's User turn) had been appended, so its Agent turn is not
\* adjacent to its User turn.
C27_Witness ==
    \E i, j \in 1..Len(origin) :
        /\ origin[i].id = origin[j].id /\ origin[i].path = "user"
        /\ origin[j].path \in {"question", "error", "summary", "redirect"}
        /\ j > i + 1
        /\ messages[i].role = "user" /\ messages[j].role = "assistant"

----------------------------------------------------------------------------
\* every submit but the last was made after the collaborator call of the one
\* before it had settled
SequentialSubmits ==
    \A k \in 1..(submits - 1) : \E r \in resolved : r.id = k /\ r.at = k

\* the number of transcript positions up to i that are not the page turn
NonPageRank(i) == Cardinality({ j \in 1..i : origin[j].path # "page" })

\* C28: when every submit is made after the call of the previous one has
\* settled, the transcript without the page-context turn alternates User,
\* Agent, User, Agent, ... starting with a User turn.
C28_SequentialAlternation ==
    SequentialSubmits =>
        \A i \in 1..Len(messages) :
            origin[i].path # "page" =>
                messages[i].role =
                    IF NonPageRank(i) % 2 = 1 THEN "user" ELSE "assistant"

----------------------------------------------------------------------------
\* C29: questionCount changes only in a step in which a question-generation
\* call resolves successfully: submits, the identity dispatch and its
\* resolution, summary dispatches and resolutions, failed question calls and
\* the arrival of page context leave it as it is.
C29_CountChangedOnlyByQuestion ==
    [][questionCount' # questionCount =>
          \E r \in resolved' \ resolved : r.call = "question" /\ r.ok]_vars

\* C29 witness: questionCount has been raised, and the page context has
\* arrived, an Authorization call has resolved and a question call has
\* failed along the way.
C29_Witness ==
    /\ questionCount >= 1
    /\ PageTurns # {}
    /\ \E r \in resolved : r.call = "authorize" /\ r.ok
    /\ \E r \in resolved : QuestionFailure(r)

====
